---- MODULE Spec2Model ----
(***************************************************************************)
(* The EDB console (edb.py): the command loop, the commands that drive the *)
(* debug-mode flag, the wait loop over target events, and the keyword      *)
(* matching of cmd_break.                                                  *)
(*                                                                         *)
(* A line is a sequence of lexemes: a word, ";", "#" or a blank " ".       *)
(* Words are atoms; a word is rendered with white space around it, so      *)
(* str.strip() removes the blanks at both ends, str.split(';') cuts at     *)
(* every ";" and str.split() keeps the non-blank lexemes.                  *)
(***************************************************************************)
EXTENDS Integers, Sequences, FiniteSets, TLC

VARIABLES
    args_command,   \* args.command: None or Some(line) of --command
    command_runs,   \* how many times line 274 took args.command as the line
    once,           \* the loop's once flag
    cmd_lines,      \* line.split(';') of the line being executed
    idx,            \* position of the for loop of line 293 (1-based)
    pc,             \* "top" | "for" | "wait" | "end" | "done" | "crashed"
    monitor,        \* the global monitor: "None" or "EDB"
    session,        \* the engine's session: "None" | "Active" | "Halted"
    active_mode,    \* the global active_mode
    exc,            \* what the last step raised, caught or not ("None": nothing)
    ran,            \* the segments of this line whose cmd_ function was called
    calls,          \* the engine methods the current command has called
    flog,           \* cmd_wait's log file: None or Some(the rows written)
    arrived,        \* the events mon.wait() returned to the current cmd_wait
    output,         \* the events the current cmd_wait printed
    bargs,          \* the arguments of a cmd_break call
    core            \* what cmd_break handed to toggle_breakpoint

vars == <<args_command, command_runs, once, cmd_lines, idx, pc, monitor,
          session, active_mode, exc, ran, calls, flog, arrived, output,
          bargs, core>>

loopVars == <<args_command, command_runs, once, cmd_lines, idx, pc, monitor,
              session, active_mode, exc, ran, calls, flog, arrived, output>>

breakVars == <<bargs, core>>

\* Bounds of the model.
MaxLineLen == 3
MaxLongLineLen == 5
MaxCommandLen == 2
MaxCommandRuns == 2
MaxEvents == 2
MaxPartLen == 2

(***************************************************************************)
(* Lines                                                                   *)
(***************************************************************************)
Words == {"attach", "detach", "reset", "int", "cont", "ebreak", "wait",
          "intctx", "charge", "discharge", "stream", "pc",
          "2.4", "cmp", "foo"}

Lexemes == Words \cup {";", "#", " "}

SeqsUpTo(S, n) == UNION {[1..k -> S] : k \in 0..n}

\* A value that may be None: <<>> is None, <<x>> is x.
None == <<>>

Some(x) == <<x>>

\* The lexemes of the longer lines: several commands on one line.
LongLexemes == {"attach", "int", "cont", "wait", "foo", ";"}

Lines == SeqsUpTo(Lexemes, MaxLineLen) \cup SeqsUpTo(LongLexemes, MaxLongLineLen)

CommandLines == SeqsUpTo(Lexemes, MaxCommandLen)

RECURSIVE LStrip(_)
LStrip(s) == IF s # <<>> /\ Head(s) = " " THEN LStrip(Tail(s)) ELSE s

RECURSIVE RStrip(_)
RStrip(s) ==
    IF s # <<>> /\ s[Len(s)] = " " THEN RStrip(SubSeq(s, 1, Len(s) - 1)) ELSE s

\* line.strip()
Strip(s) == RStrip(LStrip(s))

\* line.split(';'): one more segment than there are ";"
RECURSIVE Split(_)
Split(s) ==
    IF \A i \in 1..Len(s) : s[i] # ";"
    THEN <<s>>
    ELSE LET k == CHOOSE i \in 1..Len(s) :
                      s[i] = ";" /\ \A j \in 1..(i - 1) : s[j] # ";"
         IN <<SubSeq(s, 1, k - 1)>> \o Split(SubSeq(s, k + 1, Len(s)))

NotBlank(x) == x # " "

\* cmd_line.split()
Tokens(seg) == SelectSeq(seg, NotBlank)

\* float(s) succeeds
IsFloat(w) == w = "2.4"

(***************************************************************************)
(* The cmd_ functions of the module: the fewest and the most arguments     *)
(* each takes after mon.                                                   *)
(***************************************************************************)
VarArgs == 1000

Arity ==
    [c \in {"echo", "sleep", "power", "sense", "secho", "decho", "replay",
            "lget", "rget", "uart", "payload"} |-> <<1, 1>>]
    @@ [c \in {"detach", "reset", "int", "cont", "pc"} |-> <<0, 0>>]
    @@ [c \in {"wait", "intctx"} |-> <<0, 1>>]
    @@ [c \in {"charge", "discharge", "ebreak"} |-> <<1, 2>>]
    @@ [c \in {"read", "lset", "rset"} |-> <<2, 2>>]
    @@ [c \in {"stream", "streamnp"} |-> <<2, VarArgs>>]
    @@ ("attach" :> <<0, 2>>) @@ ("break" :> <<3, 4>>)
    @@ ("watch" :> <<2, 3>>) @@ ("write" :> <<1, VarArgs>>)

CurTokens == Tokens(cmd_lines[idx])

NArgs == Len(CurTokens) - 1

\* The for loop is at a segment that names cmd and gives it arguments it takes.
Invoked(cmd) ==
    /\ pc = "for"
    /\ CurTokens # <<>>
    /\ CurTokens[1] = cmd
    /\ NArgs >= Arity[cmd][1]
    /\ NArgs <= Arity[cmd][2]

\* The i-th argument after mon, or dflt when the line gives fewer.
Arg(i, dflt) == IF NArgs >= i THEN CurTokens[i + 1] ELSE dflt

(***************************************************************************)
(* The engine (pyedb), seen from the console: a call returns, raises an    *)
(* error, or is cut by the user's Ctrl-C.  A call on monitor = None raises *)
(* AttributeError before the engine is reached.                            *)
(***************************************************************************)
Outcomes ==
    IF monitor = "None" THEN {"AttributeError"}
    ELSE IF session = "None" THEN {"EngineError"}
    ELSE {"ok", "EngineError", "KeyboardInterrupt"}

\* The session's mode after engine method fn ended with outcome o.
SessionAfter(fn, o) ==
    IF o # "ok" THEN session
    ELSE CASE fn \in {"interrupt", "break_at_vcap_level"} -> "Halted"
           [] fn \in {"exit_debug_mode", "reset_debug_mode_state"} -> "Active"
           [] fn = "destroy" -> "None"
           [] OTHER -> session

Events ==
    {[kind |-> "InterruptContext", id |-> 42, vcap |-> "2.10"],
     [kind |-> "WatchpointEvent", id |-> 3, vcap |-> "1.98"],
     [kind |-> "WatchpointEvent", id |-> 3, vcap |-> "None"],
     [kind |-> "StdIOData", id |-> 0, vcap |-> "None"],
     [kind |-> "EnergyProfile", id |-> 0, vcap |-> "None"]}

(***************************************************************************)
(* The command loop                                                        *)
(***************************************************************************)
Init ==
    /\ args_command \in {None} \cup {Some(l) : l \in CommandLines}
    /\ command_runs = 0
    /\ once = FALSE
    /\ cmd_lines = <<>>
    /\ idx = 0
    /\ pc = "top"
    /\ monitor = "None"
    /\ session = "None"
    /\ active_mode = FALSE
    /\ exc = "None"
    /\ ran = <<>>
    /\ calls = <<>>
    /\ flog = None
    /\ arrived = <<>>
    /\ output = <<>>
    /\ bargs = None
    /\ core = None

\* Lines 286-291: strip, skip a blank line and a comment, split at ';'.
Body(line) ==
    LET s == Strip(line) IN
    IF s = <<>> \/ s[1] = "#"
    THEN /\ pc' = "top"
         /\ UNCHANGED <<cmd_lines, idx>>
    ELSE /\ pc' = "for"
         /\ cmd_lines' = Split(s)
         /\ idx' = 1

\* Lines 272-274: the line is args.command.
ReadCommand ==
    /\ pc = "top"
    /\ args_command # None
    /\ command_runs < MaxCommandRuns
    /\ command_runs' = command_runs + 1
    /\ once' = TRUE
    /\ Body(args_command[1])
    /\ UNCHANGED <<args_command, monitor, session, active_mode, exc, ran,
                   calls, flog, arrived, output, bargs, core>>

\* Lines 275-278: the line is read at the prompt.
InputLine ==
    /\ pc = "top"
    /\ args_command = None
    /\ once' = FALSE
    /\ \E line \in Lines : Body(line)
    /\ UNCHANGED <<args_command, command_runs, monitor, session, active_mode,
                   exc, ran, calls, flog, arrived, output, bargs, core>>

\* Lines 279-281: end of input leaves the loop.
InputEOF ==
    /\ pc = "top"
    /\ args_command = None
    /\ once' = FALSE
    /\ pc' = "done"
    /\ UNCHANGED <<args_command, command_runs, cmd_lines, idx, monitor,
                   session, active_mode, exc, ran, calls, flog, arrived,
                   output, bargs, core>>

\* Lines 282-284: Ctrl-C at the prompt starts the loop again.
InputInterrupt ==
    /\ pc = "top"
    /\ args_command = None
    /\ once' = FALSE
    /\ pc' = "top"
    /\ UNCHANGED <<args_command, command_runs, cmd_lines, idx, monitor,
                   session, active_mode, exc, ran, calls, flog, arrived,
                   output, bargs, core>>

\* The cmd_ function returned: the for loop takes the next segment, or ends.
Return ==
    /\ exc' = "None"
    /\ idx' = idx + 1
    /\ pc' = IF idx < Len(cmd_lines) THEN "for" ELSE "end"

\* except KeyboardInterrupt: pass, inside a cmd_ function: it returns.
Absorb(e) ==
    /\ exc' = e
    /\ idx' = idx + 1
    /\ pc' = IF idx < Len(cmd_lines) THEN "for" ELSE "end"

\* Caught with the try inside the for loop: the loop goes on after an error.
CaughtInsideLoop(e) ==
    /\ exc' = e
    /\ idx' = idx + 1
    /\ pc' = IF idx < Len(cmd_lines) THEN "for" ELSE "end"

\* Lines 298-300: except Exception leaves the for loop.
Caught(e) ==
    /\ exc' = e
    /\ idx' = idx
    /\ pc' = "end"

\* An exception leaves the try of line 292: an Exception is caught, a
\* KeyboardInterrupt is not and ends the process.
Raise(e) ==
    IF e = "KeyboardInterrupt"
    THEN /\ exc' = e
         /\ idx' = idx
         /\ pc' = "crashed"
    ELSE Caught(e)

\* The cmd_ function of the segment is entered.
Enter == ran' = Append(ran, idx)

\* Lines 294-297 when no cmd_ function is entered: tokens[0] of an empty
\* segment, a name that is no cmd_ function, arguments the function does not take.
DispatchFail ==
    /\ pc = "for"
    /\ \/ /\ CurTokens = <<>>
          /\ Caught("IndexError")
       \/ /\ CurTokens # <<>>
          /\ CurTokens[1] \notin DOMAIN Arity
          /\ Caught("KeyError")
       \/ /\ CurTokens # <<>>
          /\ CurTokens[1] \in DOMAIN Arity
          /\ \/ NArgs < Arity[CurTokens[1]][1]
             \/ NArgs > Arity[CurTokens[1]][2]
          /\ Caught("TypeError")
    /\ UNCHANGED <<args_command, command_runs, once, cmd_lines, monitor,
                   session, active_mode, ran, calls, flog, arrived, output,
                   bargs, core>>

\* Lines 302-303.
EndPass ==
    /\ pc = "end"
    /\ pc' = IF once THEN "done" ELSE "top"
    /\ cmd_lines' = <<>>
    /\ idx' = 0
    /\ exc' = "None"
    /\ ran' = <<>>
    /\ calls' = <<>>
    /\ flog' = None
    /\ arrived' = <<>>
    /\ output' = <<>>
    /\ UNCHANGED <<args_command, command_runs, once, monitor, session,
                   active_mode, bargs, core>>

(***************************************************************************)
(* The commands                                                            *)
(***************************************************************************)
\* A command that makes one engine call and keeps the console's state.
RoundTrip(fn) ==
    /\ Enter
    /\ \E o \in Outcomes :
          /\ calls' = <<fn>>
          /\ session' = SessionAfter(fn, o)
          /\ IF o = "ok" THEN Return ELSE Raise(o)
    /\ UNCHANGED <<args_command, command_runs, once, cmd_lines, monitor,
                   active_mode, flog, arrived, output, bargs, core>>

\* A command that raises e before it reaches the engine.
RaiseEarly(e) ==
    /\ Enter
    /\ Raise(e)
    /\ UNCHANGED <<args_command, command_runs, once, cmd_lines, monitor,
                   session, active_mode, calls, flog, arrived, output,
                   bargs, core>>

CmdAttach ==
    /\ Invoked("attach")
    /\ Enter
    /\ \E o \in {"ok", "EngineError"} :
          /\ calls' = <<"EDB">>
          /\ IF o = "ok"
             THEN monitor' = "EDB" /\ session' = "Active" /\ Return
             ELSE UNCHANGED <<monitor, session>> /\ Raise(o)
    /\ UNCHANGED <<args_command, command_runs, once, cmd_lines, active_mode,
                   flog, arrived, output, bargs, core>>

CmdDetach == Invoked("detach") /\ RoundTrip("destroy")

CmdReset == Invoked("reset") /\ RoundTrip("reset_debug_mode_state")

CmdPc == Invoked("pc") /\ RoundTrip("get_pc")

\* The source word goes through match_keyword to the engine; whichever source
\* is asked for, the console's state is not written.
CmdIntctx == Invoked("intctx") /\ RoundTrip("get_interrupt_context")

\* do_stream: float(duration_sec), then mon.stream inside try/except
\* KeyboardInterrupt.
CmdStream ==
    /\ Invoked("stream")
    /\ IF ~IsFloat(Arg(2, "None"))
       THEN RaiseEarly("ValueError")
       ELSE /\ Enter
            /\ \E o \in Outcomes :
                  /\ calls' = <<"stream">>
                  /\ session' = SessionAfter("stream", o)
                  /\ CASE o = "ok" -> Return
                       [] o = "KeyboardInterrupt" -> Absorb(o)
                       [] OTHER -> Raise(o)
            /\ UNCHANGED <<args_command, command_runs, once, cmd_lines,
                           monitor, active_mode, flog, arrived, output,
                           bargs, core>>

Charger(adc, cmp) ==
    IF ~IsFloat(Arg(1, "None")) THEN RaiseEarly("ValueError")
    ELSE IF Arg(2, "adc") = "adc" THEN RoundTrip(adc)
    ELSE IF Arg(2, "adc") = "cmp" THEN RoundTrip(cmp)
    ELSE RaiseEarly("Exception")

CmdCharge == Invoked("charge") /\ Charger("charge", "charge_cmp")

CmdDischarge == Invoked("discharge") /\ Charger("discharge", "discharge_cmp")

\* CmdInt with a retry of the halt command after a cancellation.
CmdIntRetry ==
    /\ Invoked("int")
    /\ Enter
    /\ \E o \in Outcomes :
          /\ CASE o = "ok" ->
                    /\ calls' = <<"interrupt">>
                    /\ session' = "Halted"
                    /\ active_mode' = TRUE
                    /\ Return
               [] o = "KeyboardInterrupt" ->
                    /\ calls' = <<"interrupt", "interrupt">>
                    /\ session' = "Halted"
                    /\ active_mode' = TRUE
                    /\ Absorb(o)
               [] OTHER ->
                    /\ calls' = <<"interrupt">>
                    /\ session' = session
                    /\ active_mode' = active_mode
                    /\ Raise(o)
    /\ UNCHANGED <<args_command, command_runs, once, cmd_lines, monitor,
                   flog, arrived, output, bargs, core>>

CmdInt ==
    /\ Invoked("int")
    /\ Enter
    /\ \E o \in Outcomes :
          /\ calls' = <<"interrupt">>
          /\ session' = SessionAfter("interrupt", o)
          /\ CASE o = "ok" -> active_mode' = TRUE /\ Return
               [] o = "KeyboardInterrupt" ->
                      active_mode' = active_mode /\ Absorb(o)
               [] OTHER -> active_mode' = active_mode /\ Raise(o)
    /\ UNCHANGED <<args_command, command_runs, once, cmd_lines, monitor,
                   flog, arrived, output, bargs, core>>

\* CmdCont with the flag cleared before the engine call.
CmdContFlagFirst ==
    /\ Invoked("cont")
    /\ Enter
    /\ active_mode' = FALSE
    /\ \E o \in Outcomes :
          /\ calls' = <<"exit_debug_mode">>
          /\ session' = SessionAfter("exit_debug_mode", o)
          /\ IF o = "ok" THEN Return ELSE Raise(o)
    /\ UNCHANGED <<args_command, command_runs, once, cmd_lines, monitor,
                   flog, arrived, output, bargs, core>>

CmdCont ==
    /\ Invoked("cont")
    /\ Enter
    /\ \E o \in Outcomes :
          /\ calls' = <<"exit_debug_mode">>
          /\ session' = SessionAfter("exit_debug_mode", o)
          /\ IF o = "ok"
             THEN active_mode' = FALSE /\ Return
             ELSE active_mode' = active_mode /\ Raise(o)
    /\ UNCHANGED <<args_command, command_runs, once, cmd_lines, monitor,
                   flog, arrived, output, bargs, core>>

CmdEbreak ==
    /\ Invoked("ebreak")
    /\ IF ~IsFloat(Arg(1, "None"))
       THEN RaiseEarly("ValueError")
       ELSE /\ Enter
            /\ \E o \in Outcomes :
                  /\ calls' = <<"break_at_vcap_level">>
                  /\ session' = SessionAfter("break_at_vcap_level", o)
                  /\ IF o = "ok"
                     THEN active_mode' = TRUE /\ Return
                     ELSE active_mode' = active_mode /\ Raise(o)
            /\ UNCHANGED <<args_command, command_runs, once, cmd_lines,
                           monitor, flog, arrived, output, bargs, core>>

(***************************************************************************)
(* cmd_wait                                                                *)
(***************************************************************************)
\* init_watchpoint_log: the header row.
init_watchpoint_log == <<"id,timestamp,vcap">>

\* "%.4f" % v raises TypeError when v is None.
Formats(v) == v # "None"

\* log_watchpoint_event: the row "%u,%.6f,%.4f" of the event.
log_watchpoint_event(rows, event) == Append(rows, <<event.id, event.vcap>>)

\* Lines 170-181: open the log when one is named, write its header.
CmdWait ==
    /\ Invoked("wait")
    /\ Enter
    /\ flog' = IF NArgs >= 1 THEN Some(init_watchpoint_log) ELSE None
    /\ arrived' = <<>>
    /\ output' = <<>>
    /\ calls' = <<>>
    /\ exc' = "None"
    /\ pc' = "wait"
    /\ UNCHANGED <<args_command, command_runs, once, cmd_lines, idx, monitor,
                   session, active_mode, bargs, core>>

\* HandleEvent with the flag set by a watchpoint event too.
HandleEventAnyHalts(event) ==
    CASE event.kind = "InterruptContext" ->
            /\ output' = Append(output, event)
            /\ active_mode' = TRUE
            /\ flog' = flog
            /\ Return
      [] event.kind = "WatchpointEvent" ->
            IF Formats(event.vcap)
            THEN /\ output' = Append(output, event)
                 /\ flog' = IF flog # None
                            THEN Some(log_watchpoint_event(flog[1], event))
                            ELSE flog
                 /\ active_mode' = TRUE
                 /\ UNCHANGED <<exc, idx, pc>>
            ELSE /\ Raise("TypeError")
                 /\ UNCHANGED <<active_mode, output, flog>>
      [] OTHER ->
            /\ output' = Append(output, event)
            /\ UNCHANGED <<active_mode, flog, exc, idx, pc>>

\* Lines 185-200: what cmd_wait does with one event.  The relayed string of a
\* StdIOData is taken to be non-empty (event.string[-1] is defined); its
\* text and the timestamps only shape what is printed.
HandleEvent(event) ==
    CASE event.kind = "InterruptContext" ->
            /\ output' = Append(output, event)
            /\ active_mode' = TRUE
            /\ flog' = flog
            /\ Return
      [] event.kind = "WatchpointEvent" ->
            IF Formats(event.vcap)
            THEN /\ output' = Append(output, event)
                 /\ flog' = IF flog # None
                            THEN Some(log_watchpoint_event(flog[1], event))
                            ELSE flog
                 /\ UNCHANGED <<active_mode, exc, idx, pc>>
            ELSE /\ Raise("TypeError")
                 /\ UNCHANGED <<active_mode, output, flog>>
      [] OTHER ->
            /\ output' = Append(output, event)
            /\ UNCHANGED <<active_mode, flog, exc, idx, pc>>

\* Lines 182-203: one turn of the while loop.
WaitEvent ==
    /\ pc = "wait"
    /\ \E o \in Outcomes :
          /\ calls' = Append(calls, "wait")
          /\ CASE o = "ok" ->
                    /\ Len(arrived) < MaxEvents
                    /\ \E event \in Events :
                          /\ arrived' = Append(arrived, event)
                          /\ session' = IF event.kind = "InterruptContext"
                                        THEN "Halted" ELSE session
                          /\ HandleEvent(event)
               [] o = "KeyboardInterrupt" ->
                    /\ Absorb(o)
                    /\ UNCHANGED <<active_mode, session, arrived, output, flog>>
               [] OTHER ->
                    /\ Raise(o)
                    /\ UNCHANGED <<active_mode, session, arrived, output, flog>>
    /\ UNCHANGED <<args_command, command_runs, once, cmd_lines, monitor, ran,
                   bargs, core>>

Next ==
    \/ ReadCommand
    \/ InputLine
    \/ InputEOF
    \/ InputInterrupt
    \/ DispatchFail
    \/ EndPass
    \/ CmdAttach
    \/ CmdDetach
    \/ CmdReset
    \/ CmdPc
    \/ CmdIntctx
    \/ CmdStream
    \/ CmdCharge
    \/ CmdDischarge
    \/ CmdInt
    \/ CmdCont
    \/ CmdEbreak
    \/ CmdWait
    \/ WaitEvent

Spec == Init /\ [][Next]_vars

(***************************************************************************)
(* cmd_break: its words are sequences of characters.                       *)
(***************************************************************************)
CODE == <<"C", "O", "D", "E">>

ENERGY_LEVEL == <<"E", "N", "E", "R", "G", "Y", "_", "L", "E", "V", "E", "L">>

EXTERNAL == <<"E", "X", "T", "E", "R", "N", "A", "L">>

\* edb.host_comm_header.enums['BREAKPOINT_TYPE'].keys()
BREAKPOINT_TYPE == {CODE, ENERGY_LEVEL, EXTERNAL}

ENABLE == <<"e", "n", "a", "b", "l", "e">>

UpperOf ==
    ("a" :> "A") @@ ("c" :> "C") @@ ("d" :> "D") @@ ("e" :> "E")
    @@ ("g" :> "G") @@ ("l" :> "L") @@ ("n" :> "N") @@ ("o" :> "O")
    @@ ("r" :> "R") @@ ("t" :> "T") @@ ("v" :> "V") @@ ("x" :> "X")
    @@ ("y" :> "Y")

LowerOf ==
    ("A" :> "a") @@ ("C" :> "c") @@ ("D" :> "d") @@ ("E" :> "e")
    @@ ("G" :> "g") @@ ("L" :> "l") @@ ("N" :> "n") @@ ("O" :> "o")
    @@ ("R" :> "r") @@ ("T" :> "t") @@ ("V" :> "v") @@ ("X" :> "x")
    @@ ("Y" :> "y")

\* str.upper()
Upper(w) == [i \in 1..Len(w) |-> IF w[i] \in DOMAIN UpperOf
                                  THEN UpperOf[w[i]] ELSE w[i]]

Lower(w) == [i \in 1..Len(w) |-> IF w[i] \in DOMAIN LowerOf
                                  THEN LowerOf[w[i]] ELSE w[i]]

\* word.startswith(part)
StartsWith(word, part) ==
    /\ Len(part) <= Len(word)
    /\ SubSeq(word, 1, Len(part)) = part

\* match_keyword: the word that starts with part, None when there is none;
\* raised when more than one word does.
match_keyword(part, words) ==
    LET hits == {w \in words : StartsWith(w, part)} IN
    IF Cardinality(hits) > 1 THEN [raised |-> TRUE, match |-> None]
    ELSE IF hits = {} THEN [raised |-> FALSE, match |-> None]
    ELSE [raised |-> FALSE, match |-> Some(CHOOSE w \in hits : TRUE)]

Prefixes(w) == {SubSeq(w, 1, k) : k \in 1..Len(w)}

Chars == {"c", "e", "x", "C", "E"}

\* What the user types for the type: the names and their beginnings, in
\* either case, and short words over Chars.
TypeWords ==
    UNION {Prefixes(w) \cup Prefixes(Lower(w)) : w \in BREAKPOINT_TYPE}
    \cup (SeqsUpTo(Chars, MaxPartLen) \ {<<>>})

\* What the user types for the op.
OpWords ==
    Prefixes(ENABLE) \cup {ENABLE \o <<"d">>, <<"d", "i", "s">>, <<"x">>}

\* int(s) and float(s) succeed
IsInt(w) == w \in {"0", "1"}

IntOf == ("0" :> 0) @@ ("1" :> 1)

BreakInit ==
    /\ args_command = None
    /\ command_runs = 0
    /\ once = FALSE
    /\ cmd_lines = <<>>
    /\ idx = 0
    /\ pc = "break"
    /\ monitor \in {"None", "EDB"}
    /\ session = IF monitor = "None" THEN "None" ELSE "Halted"
    /\ active_mode = (monitor # "None")
    /\ exc = "None"
    /\ ran = <<>>
    /\ calls = <<>>
    /\ flog = None
    /\ arrived = <<>>
    /\ output = <<>>
    /\ bargs \in {Some([type |-> t, idx |-> i, op |-> o, energy_level |-> e]) :
                    t \in TypeWords, i \in {"0", "1", "foo"}, o \in OpWords,
                    e \in {None, Some("2.4"), Some("foo")}}
    /\ core = None

\* Lines 157-162.
CmdBreak ==
    /\ pc = "break"
    /\ pc' = "end"
    /\ LET a == bargs[1]
           enable == StartsWith(ENABLE, a.op)
           type == match_keyword(Upper(a.type), BREAKPOINT_TYPE)
       IN IF ~IsInt(a.idx)
          THEN exc' = "ValueError" /\ UNCHANGED <<core, calls>>
          ELSE IF type.raised
          THEN exc' = "Exception" /\ UNCHANGED <<core, calls>>
          ELSE IF a.energy_level # None /\ ~IsFloat(a.energy_level[1])
          THEN exc' = "ValueError" /\ UNCHANGED <<core, calls>>
          ELSE IF monitor = "None"
          THEN exc' = "AttributeError" /\ UNCHANGED <<core, calls>>
          ELSE /\ core' = Some([type |-> type.match, idx |-> IntOf[a.idx],
                                enable |-> enable,
                                energy_level |-> a.energy_level])
               /\ calls' = <<"toggle_breakpoint">>
               /\ exc' \in (Outcomes \ {"ok"}) \cup {"None"}
    /\ UNCHANGED <<args_command, command_runs, once, cmd_lines, idx, monitor,
                   session, active_mode, ran, flog, arrived, output, bargs>>

BreakNext == CmdBreak

SpecBreak == BreakInit /\ [][BreakNext]_vars

(***************************************************************************)
(* The claims                                                              *)
(***************************************************************************)
\* The step made mon.wait() return an event to cmd_wait.
Delivered == pc = "wait" /\ Len(arrived') = Len(arrived) + 1

DeliveredEvent == arrived'[Len(arrived')]

\* The step raised an error (an Exception, not a KeyboardInterrupt).
Failed == exc' \notin {"None", "KeyboardInterrupt"}

\* The step is one of command cmd: its call, or a turn of its loop.
StepOf(cmd) ==
    \/ pc = "for" /\ CurTokens # <<>> /\ CurTokens[1] = cmd
    \/ pc = "wait" /\ cmd = "wait"

C2_ErrorKeepsMode ==
    [][/\ ((StepOf("int") \/ StepOf("cont") \/ StepOf("ebreak")
               \/ StepOf("wait")) /\ Failed)
             => active_mode' = active_mode /\ pc' = "end"
       /\ (pc = "wait" /\ pc' = "wait") => active_mode' = active_mode
       /\ pc = "end"
             => /\ active_mode' = active_mode
                /\ pc' = IF once THEN "done" ELSE "top"]_vars

\* C2's case: cont failed in the engine while the console was in debug mode.
C2_Witness ==
    /\ pc = "end"
    /\ exc = "EngineError"
    /\ calls = <<"exit_debug_mode">>
    /\ active_mode

\* C3: a cmd_int cut by KeyboardInterrupt leaves active_mode as it was, has
\* called mon.interrupt() once only, and returns to the loop.
C3_CancelledIntKeepsMode ==
    [][(StepOf("int") /\ exc' = "KeyboardInterrupt")
          => /\ active_mode' = active_mode
             /\ calls' = <<"interrupt">>
             /\ pc' \in {"for", "end"}]_vars

\* C3's case: int was cancelled while the target ran.
C3_Witness ==
    /\ pc = "end"
    /\ exc = "KeyboardInterrupt"
    /\ calls = <<"interrupt">>
    /\ session = "Active"
    /\ ~active_mode

\* C4: a KeyboardInterrupt raised in any blocking command is absorbed: the
\* flag is as before and the loop goes on.
C4_CancellationAbsorbed ==
    [][(pc \in {"for", "wait"} /\ exc' = "KeyboardInterrupt")
          => /\ active_mode' = active_mode
             /\ pc' \in {"for", "end"}]_vars

\* The last event of a sequence is its first InterruptContext.
EndsAtFirstInterrupt(evs) ==
    /\ evs # <<>>
    /\ evs[Len(evs)].kind = "InterruptContext"
    /\ \A i \in 1..(Len(evs) - 1) : evs[i].kind # "InterruptContext"

\* C5: what a cmd_wait has printed is what it was delivered, in that order,
\* each event once; when it ends, other than by an engine error or a
\* cancellation, that is the arrival sequence up to and including the first
\* InterruptContext.
C5_OutputIsArrivalPrefix ==
    [][pc = "wait" =>
         /\ output' = arrived'
         /\ (pc' # "wait"
                /\ exc' \notin {"KeyboardInterrupt", "EngineError",
                                "AttributeError"})
               => EndsAtFirstInterrupt(output')]_vars

\* C6: with --command the loop takes the command line once.
C6_CommandRunsOnce == args_command # None => command_runs <= 1

\* The row of the log for an event: id, vcap, the vcap blank when not sampled.
LogRow(event) == <<event.id, IF event.vcap = "None" THEN "" ELSE event.vcap>>

\* C7: every WatchpointEvent delivered to a cmd_wait with a log file appends
\* exactly one row to the log, with a blank vcap when the event has none, and
\* the wait goes on.
C7_OneRowPerWatchpointEvent ==
    [][(Delivered /\ flog # None /\ DeliveredEvent.kind = "WatchpointEvent")
          => /\ flog' = Some(Append(flog[1], LogRow(DeliveredEvent)))
             /\ pc' = "wait"]_vars

\* C8: what cmd_break hands to toggle_breakpoint is a name of BREAKPOINT_TYPE
\* and a boolean.
C8_CoreGetsEnumMembers ==
    core # None
       => /\ core[1].type \in {Some(w) : w \in BREAKPOINT_TYPE}
          /\ core[1].enable \in BOOLEAN

\* C9: at the prompt, the flag active_mode is set exactly when the session is
\* Halted.
C9_PromptAgreesWithSession ==
    (pc = "top" /\ session # "None") => (active_mode <=> session = "Halted")

\* The sequence 1, 2, ..., n.
Upto(n) == [k \in 1..n |-> k]

\* C10: the segments of a line are entered left to right, each at most once;
\* a step that raises an error ends the for loop there and keeps what the
\* earlier commands did; no command is entered after it; the loop goes to its
\* next line (with --command the pass ends).
C10_ErrorEndsTheLine ==
    [][/\ ran' = Upto(Len(ran'))
       /\ pc' = "for" => Len(ran') = idx' - 1 /\ idx' <= Len(cmd_lines')
       /\ pc' = "wait" => Len(ran') = idx'
       /\ pc' \in {"end", "crashed"} => Len(ran') \in {idx' - 1, idx'}
       /\ (pc \in {"for", "wait"} /\ Failed)
             => /\ pc' = "end"
                /\ idx' = idx
                /\ monitor' = monitor
                /\ active_mode' = active_mode
       /\ pc = "end"
             => /\ Len(ran') <= Len(ran)
                /\ monitor' = monitor
                /\ active_mode' = active_mode
                /\ pc' = IF once THEN "done" ELSE "top"]_vars

\* C10's case: attach ran, the unknown command failed, the third was not run.
C10_Witness ==
    /\ pc = "end"
    /\ exc = "KeyError"
    /\ Len(cmd_lines) = 3
    /\ idx = 2
    /\ ran = <<1>>
    /\ monitor = "EDB"

====
